---------------------------- MODULE Spec2Model ----------------------------
(***************************************************************************)
(* A state-machine model of the geonav_transform node                      *)
(* (src/src/geonav_transform.cpp): the GeonavTransform object, its run()   *)
(* configuration sequence, setDatum() and navOdomCallback().               *)
(*                                                                         *)
(* Numbers.  Position components are doubles that may be non-finite, so    *)
(* they are extended integers: <<"fin", n>>, <<"nan", 0>>, <<"inf", 1>>,   *)
(* <<"inf", -1>>, with IEEE-754 rules for + and * (0 * inf = NaN, ...).    *)
(* Quaternions are <<x, y, z, w>> in half units (2 stands for 1.0); the    *)
(* inputs are drawn from the Hurwitz units, whose rotation matrices have   *)
(* entries in {-1, 0, 1}, so every tf2 computation below is exact.         *)
(* Covariances are integer arrays indexed 0..35, as in the message.        *)
(***************************************************************************)
EXTENDS Integers, Sequences, FiniteSets, TLC

(***************************************************************************)
(* Bounds of the model.                                                    *)
(***************************************************************************)
\* number of measurements delivered to navOdomCallback
MaxMsgs == 2
\* largest altitude of a measurement
MaxAlt == 1

(***************************************************************************)
(* Program constants: the filter's pose is 6-dimensional, its position     *)
(* 3-dimensional (geonav_transform.h).                                     *)
(***************************************************************************)
POSE_SIZE == 6
POSITION_SIZE == 3

(***************************************************************************)
(* Extended numbers (IEEE-754 doubles restricted to integers, NaN, +-inf). *)
(***************************************************************************)
Fin(n) == <<"fin", n>>
NaN == <<"nan", 0>>
PosInf == <<"inf", 1>>
NegInf == <<"inf", -1>>

IsFin(v) == v[1] = "fin"
\* std::isnan
IsNaN(v) == v[1] = "nan"

Sgn(n) == IF n > 0 THEN 1 ELSE IF n < 0 THEN -1 ELSE 0

XNeg(v) ==
  IF IsFin(v) THEN Fin(0 - v[2])
  ELSE IF IsNaN(v) THEN NaN
  ELSE <<"inf", 0 - v[2]>>

XAdd(a, b) ==
  IF IsNaN(a) \/ IsNaN(b) THEN NaN
  ELSE IF IsFin(a) /\ IsFin(b) THEN Fin(a[2] + b[2])
  ELSE IF IsFin(a) THEN b
  ELSE IF IsFin(b) THEN a
  ELSE IF a[2] = b[2] THEN a
  ELSE NaN

\* an integer (a rotation-matrix entry) times an extended number
XScale(k, v) ==
  IF IsNaN(v) THEN NaN
  ELSE IF IsFin(v) THEN Fin(k * v[2])
  ELSE IF k = 0 THEN NaN
  ELSE <<"inf", Sgn(k) * v[2]>>

(***************************************************************************)
(* tf2::Vector3, tf2::Matrix3x3, tf2::Quaternion, tf2::Transform.          *)
(* A matrix is a triple of rows of integers; a vector a triple of          *)
(* extended numbers.                                                       *)
(***************************************************************************)
Vec(x, y, z) == <<x, y, z>>
ZeroVec == <<Fin(0), Fin(0), Fin(0)>>
VNeg(v) == <<XNeg(v[1]), XNeg(v[2]), XNeg(v[3])>>

IdentityMat == << <<1, 0, 0>>, <<0, 1, 0>>, <<0, 0, 1>> >>
ZeroMat == << <<0, 0, 0>>, <<0, 0, 0>>, <<0, 0, 0>> >>

\* Matrix3x3::transpose
Transpose(m) == [i \in 1..3 |-> [j \in 1..3 |-> m[j][i]]]

\* Matrix3x3 * Matrix3x3
MatMul(a, b) ==
  [i \in 1..3 |-> [j \in 1..3 |->
     a[i][1] * b[1][j] + a[i][2] * b[2][j] + a[i][3] * b[3][j]]]

\* Matrix3x3 * Vector3 (row . vector, summed left to right)
MatVec(m, v) ==
  [i \in 1..3 |->
     XAdd(XAdd(XScale(m[i][1], v[1]), XScale(m[i][2], v[2])),
          XScale(m[i][3], v[3]))]

VAdd(a, b) == [i \in 1..3 |-> XAdd(a[i], b[i])]

\* Matrix3x3::setRotation(q): d = length2(q), s = 2/d, entries 1 - (yy+zz), ...
\* The scale of q cancels, so half units need no conversion.
MatFromQuat(q) ==
  LET x == q[1]
      y == q[2]
      z == q[3]
      w == q[4]
      d == x*x + y*y + z*z + w*w
  IN << << (d - 2*(y*y + z*z)) \div d, (2*(x*y - w*z)) \div d, (2*(x*z + w*y)) \div d >>,
        << (2*(x*y + w*z)) \div d, (d - 2*(x*x + z*z)) \div d, (2*(y*z - w*x)) \div d >>,
        << (2*(x*z - w*y)) \div d, (2*(y*z + w*x)) \div d, (d - 2*(x*x + y*y)) \div d >> >>

ISqrt(n) == CHOOSE r \in 0..n : r * r = n

\* Matrix3x3::getRotation(q): the quaternion of a matrix, in half units.
\* The result has one fixed sign, whatever quaternion the matrix came from.
GetRotation(m) ==
  LET trace == m[1][1] + m[2][2] + m[3][3]
  IN IF trace > 0
     THEN LET s == ISqrt(trace + 1)
          IN << (m[3][2] - m[2][3]) \div s,
                (m[1][3] - m[3][1]) \div s,
                (m[2][1] - m[1][2]) \div s,
                s >>
     ELSE LET i == IF m[1][1] < m[2][2]
                   THEN (IF m[2][2] < m[3][3] THEN 3 ELSE 2)
                   ELSE (IF m[1][1] < m[3][3] THEN 3 ELSE 1)
              j == (i % 3) + 1
              k == ((i + 1) % 3) + 1
              s == ISqrt(m[i][i] - m[j][j] - m[k][k] + 1)
              t == [n \in 1..4 |->
                      IF n = i THEN s
                      ELSE IF n = 4 THEN (m[k][j] - m[j][k]) \div s
                      ELSE IF n = j THEN (m[j][i] + m[i][j]) \div s
                      ELSE (m[k][i] + m[i][k]) \div s]
          IN << t[1], t[2], t[3], t[4] >>

\* tf2::Transform as {basis, origin}
Xf(b, o) == [basis |-> b, origin |-> o]

\* Transform::inverse(): inv = basis^T; Transform(inv, inv * -origin)
Inverse(t) ==
  LET inv == Transpose(t.basis)
  IN Xf(inv, MatVec(inv, VNeg(t.origin)))

\* Transform::mult(t1, t2): basis = t1.basis * t2.basis; origin = t1(t2.origin)
Mult(t1, t2) ==
  Xf(MatMul(t1.basis, t2.basis), VAdd(MatVec(t1.basis, t2.origin), t1.origin))

(***************************************************************************)
(* Quaternions of the model, in half units.                                *)
(***************************************************************************)
QId == <<0, 0, 0, 2>>
\* the same rotation as QId, with the other sign
QNegId == <<0, 0, 0, -2>>
\* a half turn about z
QYawPi == <<0, 0, 2, 0>>
\* a third of a turn about (1, 1, 1)
QDiag == <<1, 1, 1, 1>>

\* Quaternion::setRPY(0, 0, yaw) with yaw counted in half turns (units of pi):
\* (0, 0, sin(yaw/2), cos(yaw/2))
SetRPY(yaw) ==
  IF yaw = 0 THEN <<0, 0, 0, 2>>
  ELSE IF yaw = 1 THEN <<0, 0, 2, 0>>
  ELSE <<0, 0, -2, 0>>

(***************************************************************************)
(* NavsatConversions::LLtoUTM(Lat, Long, UTMNorthing, UTMEasting, zone).   *)
(* The projection is not part of src/; it is modelled as a deterministic   *)
(* function of (lat, lon) that is injective on the model's grid and yields *)
(* NaN for a non-finite argument.                                          *)
(***************************************************************************)
LLtoUTM(lat, lon) ==
  IF IsFin(lat) /\ IsFin(lon)
  THEN [northing |-> Fin(100 * lat[2] + lon[2]),
        easting  |-> Fin(500 + 10 * lon[2] - lat[2]),
        zone     |-> IF lat[2] >= 0 THEN "31N" ELSE "31M"]
  ELSE [northing |-> NaN, easting |-> NaN, zone |-> "31Z"]

\* GeonavUtilities::appendPrefix(tf_prefix, frame_id)
AppendPrefix(tf_prefix, frame_id) ==
  IF tf_prefix = "" THEN frame_id ELSE tf_prefix \o "/" \o frame_id

(***************************************************************************)
(* 6x6 matrices (Eigen::MatrixXd), indexed 0..5 as in the code.            *)
(***************************************************************************)
Idx6 == 0..(POSE_SIZE - 1)
CovIdx == 0..(POSE_SIZE * POSE_SIZE - 1)

Mat6Mul(a, b) ==
  [i \in Idx6 |-> [j \in Idx6 |->
     a[i][0]*b[0][j] + a[i][1]*b[1][j] + a[i][2]*b[2][j]
       + a[i][3]*b[3][j] + a[i][4]*b[4][j] + a[i][5]*b[5][j]]]

Mat6Transpose(a) == [i \in Idx6 |-> [j \in Idx6 |-> a[j][i]]]

Identity6 == [i \in Idx6 |-> [j \in Idx6 |-> IF i = j THEN 1 ELSE 0]]

\* lines 218-226: the message's flat covariance read into the 6x6 matrix
PopulateCovariance(cov) ==
  [row \in Idx6 |-> [col \in Idx6 |-> cov[row * POSE_SIZE + col]]]

\* lines 229-239: rot_6d = identity, then rot written on the two diagonal blocks
Rot6d(rot) ==
  [r \in Idx6 |-> [c \in Idx6 |->
     IF r < POSITION_SIZE /\ c < POSITION_SIZE THEN rot[r + 1][c + 1]
     ELSE IF r >= POSITION_SIZE /\ c >= POSITION_SIZE
       THEN rot[r - POSITION_SIZE + 1][c - POSITION_SIZE + 1]
     ELSE Identity6[r][c]]]

\* line 241: rot_6d * cov * rot_6d^T
RotateCovariance(rot6, cov6) == Mat6Mul(Mat6Mul(rot6, cov6), Mat6Transpose(rot6))

\* boost::array<double, 36> of a freshly constructed nav_msgs::Odometry
ZeroCov == [k \in CovIdx |-> 0]

\* lines 253-260: the loops that copy the rotated matrix into the message,
\* one assignment per step n = i * POSE_SIZE + j, in the loops' order
RECURSIVE CopyCovariance(_, _, _)
CopyCovariance(arr, m, n) ==
  IF n = POSE_SIZE * POSE_SIZE THEN arr
  ELSE LET i == n \div POSE_SIZE
           j == n % POSE_SIZE
       IN CopyCovariance([arr EXCEPT ![POSITION_SIZE * i + j] = m[i][j]], m, n + 1)

(***************************************************************************)
(* Inputs of the model.                                                    *)
(***************************************************************************)
\* datum parameter values (degrees) and yaws (half turns)
DatumLats == {0, 1}
DatumLons == {0, 1}
DatumYaws == {0, 1}
TfPrefixes == {"r1"}

\* measurement positions: x = longitude, y = latitude, z = altitude
FinitePositions ==
  {Vec(Fin(lon), Fin(lat), Fin(alt)) : lon \in DatumLons, lat \in DatumLats, alt \in 0..MaxAlt}
NonFinite == {NaN, PosInf, NegInf}
NonFinitePositions ==
  {Vec(v, Fin(0), Fin(0)) : v \in NonFinite}
    \cup {Vec(Fin(0), v, Fin(0)) : v \in NonFinite}
    \cup {Vec(Fin(0), Fin(0), v) : v \in NonFinite}
Positions == FinitePositions \cup NonFinitePositions

Orientations == {QId, QNegId, QDiag}

\* a symmetric covariance whose entries tell their row and column
CovSym == [k \in CovIdx |->
             LET i == k \div POSE_SIZE
                 j == k % POSE_SIZE
             IN IF i <= j THEN 10 * (i + 1) + (j + 1) ELSE 10 * (j + 1) + (i + 1)]
Covariances == {CovSym}

Twist == [linear |-> <<1, 0, 0>>, angular |-> <<0, 0, 1>>, covariance |-> CovSym]
NoTwist == [linear |-> <<0, 0, 0>>, angular |-> <<0, 0, 0>>, covariance |-> ZeroCov]

\* nav_msgs::Odometry
Odometry(stamp, frame, child, pos, q, cov, twist) ==
  [stamp |-> stamp, frame_id |-> frame, child_frame_id |-> child,
   position |-> pos, orientation |-> q, covariance |-> cov, twist |-> twist]

\* a default-constructed nav_msgs::Odometry: what a publisher has sent before
\* its first publish is shown as this message with the count 0
EmptyOdometry == Odometry(0, "", "", ZeroVec, <<0, 0, 0, 0>>, ZeroCov, NoTwist)

\* what the members hold that the constructor does not initialise: tf2::Transform()
\* writes nothing, so the bytes are whatever the memory held (zeros, or stale data)
UninitTransforms ==
  {Xf(ZeroMat, ZeroVec), Xf(MatFromQuat(QDiag), Vec(Fin(1), Fin(2), Fin(3)))}

(***************************************************************************)
(* State.                                                                  *)
(***************************************************************************)
VARIABLES
  pc,                           \* position of run(): "init", "configured", "spin", "aborted"
  run_path,                     \* which branch of lines 49-90 run() took
  datum_lat, datum_lon, datum_yaw,  \* run()'s locals
  yaw_warned,                   \* "Yaw of the datum is ignored!" was logged
  zero_altitude_,
  nav_frame_id_,
  world_frame_id_,
  base_link_frame_id_,
  utm_zone_,
  has_datum_,
  transform_utm2odom_,
  transform_utm2odom_inverse_,
  utm_world_trans_inverse_,
  gps_update_time_,
  transform_utm2nav_,
  transform_utm2nav_inverse_,
  transform_utm2nav_covariance_,
  utm_broadcast,                \* static transforms sent by utm_broadcaster_
  utm_pub_,                     \* [count, last]: messages published on odometry/utm
  odom_pub_,                    \* [count, last]: messages published on odometry/odom
  datum_calls,                  \* history: number of setDatum calls completed
  cb_count,                     \* history: number of navOdomCallback calls
  cb_msg,                       \* history: the message of the latest callback
  cb_result,                    \* history: "none", "dropped" or "published"
  cb_datum_calls,               \* history: datum_calls when the latest callback ran
  cb_datum_seen,                \* history: the datum members as the latest callback found them
  cb_rot                        \* history: the rotation line 228 read in the latest callback

datum_vars ==
  <<utm_zone_, has_datum_, transform_utm2odom_, transform_utm2odom_inverse_,
    utm_broadcast, datum_calls>>
run_vars ==
  <<pc, run_path, datum_lat, datum_lon, datum_yaw, yaw_warned, zero_altitude_,
    world_frame_id_, base_link_frame_id_>>
cb_vars ==
  <<nav_frame_id_, transform_utm2nav_, transform_utm2nav_inverse_,
    transform_utm2nav_covariance_, utm_pub_, odom_pub_, cb_count, cb_msg,
    cb_result, cb_datum_calls, cb_datum_seen, cb_rot>>
vars ==
  <<run_vars, datum_vars, cb_vars, utm_world_trans_inverse_, gps_update_time_>>

(***************************************************************************)
(* GeonavTransform::GeonavTransform(): the initialiser list sets            *)
(* broadcast_utm_transform_, nav_frame_id_, zero_altitude_, world_frame_id_,*)
(* base_link_frame_id_ and utm_zone_.  ros::Time() is zero.  has_datum_ and *)
(* the tf2::Transform members are left uninitialised: the ones that are     *)
(* read before anything writes them start with any of the values the        *)
(* memory may hold; transform_utm2odom_, transform_utm2nav_, its inverse    *)
(* and the covariance matrix are always written before they are read, so    *)
(* one value stands for their initial contents.                             *)
(***************************************************************************)
Init ==
  /\ pc = "init"
  /\ run_path = "none"
  /\ datum_lat = 0 /\ datum_lon = 0 /\ datum_yaw = 0
  /\ yaw_warned = FALSE
  /\ zero_altitude_ = FALSE
  /\ nav_frame_id_ = ""
  /\ world_frame_id_ = "odom"
  /\ base_link_frame_id_ = "base_link"
  /\ utm_zone_ = ""
  /\ has_datum_ \in BOOLEAN
  /\ transform_utm2odom_ = Xf(ZeroMat, ZeroVec)
  /\ transform_utm2odom_inverse_ \in UninitTransforms
  /\ utm_world_trans_inverse_ \in UninitTransforms
  /\ gps_update_time_ = 0
  /\ transform_utm2nav_ = Xf(ZeroMat, ZeroVec)
  /\ transform_utm2nav_inverse_ = Xf(ZeroMat, ZeroVec)
  /\ transform_utm2nav_covariance_ = [i \in Idx6 |-> [j \in Idx6 |-> 0]]
  /\ utm_broadcast = <<>>
  /\ utm_pub_ = [count |-> 0, last |-> EmptyOdometry]
  /\ odom_pub_ = [count |-> 0, last |-> EmptyOdometry]
  /\ datum_calls = 0
  /\ cb_count = 0
  /\ cb_msg = EmptyOdometry
  /\ cb_result = "none"
  /\ cb_datum_calls = 0
  /\ cb_datum_seen = <<>>
  /\ cb_rot = <<0, 0, 0, 0>>

(***************************************************************************)
(* GeonavTransform::setDatum(lat, lon, alt, q), lines 135-171.  frame and  *)
(* zalt are world_frame_id_ and zero_altitude_ as run() has just set them. *)
(***************************************************************************)
DatumTransform(lat, lon, alt, q) ==
  LET utm == LLtoUTM(Fin(lat), Fin(lon))
  IN Xf(MatFromQuat(q), Vec(utm.easting, utm.northing, Fin(alt)))

\* tf2::toMsg(tf2::Transform) with the header of lines 164-168
UtmTransformStamped(t, frame, zalt) ==
  [frame_id |-> frame, child_frame_id |-> "utm",
   translation |-> Vec(t.origin[1], t.origin[2], IF zalt THEN Fin(0) ELSE t.origin[3]),
   rotation |-> GetRotation(t.basis)]

setDatum(lat, lon, alt, q, frame, zalt) ==
  /\ utm_zone_' = LLtoUTM(Fin(lat), Fin(lon)).zone
  /\ transform_utm2odom_' = DatumTransform(lat, lon, alt, q)
  /\ transform_utm2odom_inverse_' = Inverse(transform_utm2odom_')
  /\ has_datum_' = TRUE
  /\ utm_broadcast' = Append(utm_broadcast, UtmTransformStamped(transform_utm2odom_', frame, zalt))
  /\ datum_calls' = datum_calls + 1

(***************************************************************************)
(* GeonavTransform::run(), lines 30-118, up to the subscription.  The three *)
(* actions are the three ways through lines 49-115.                         *)
(***************************************************************************)
\* lines 49-55: no "datum" parameter.  The locals are zeroed; lines 92-113,
\* setDatum among them, belong to the else branch and are not executed.
RunDatumAbsent ==
  /\ pc = "init"
  /\ \E zalt \in BOOLEAN : zero_altitude_' = zalt
  /\ run_path' = "absent"
  /\ datum_lat' = 0 /\ datum_lon' = 0 /\ datum_yaw' = 0
  /\ pc' = "configured"
  /\ UNCHANGED <<yaw_warned, world_frame_id_, base_link_frame_id_, datum_vars,
                 cb_vars, utm_world_trans_inverse_, gps_update_time_>>

\* lines 56-113 from the locals on: the yaw warning, the tf prefix, setDatum.
\* setDatum is declared bool and reaches its end (line 171) without a return
\* statement, which is undefined behaviour: the call either returns (run()
\* discards the value) or, in a build that treats the end as unreachable, the
\* process does not get back to run().
RunSetDatum(path, lat, lon, yaw, zalt, tf_prefix) ==
  /\ pc = "init"
  /\ zero_altitude_' = zalt
  /\ run_path' = path
  /\ datum_lat' = lat /\ datum_lon' = lon /\ datum_yaw' = yaw
  /\ yaw_warned' = (yaw # 0)
  /\ world_frame_id_' = AppendPrefix(tf_prefix, world_frame_id_)
  /\ base_link_frame_id_' = AppendPrefix(tf_prefix, base_link_frame_id_)
  /\ setDatum(lat, lon, 0, SetRPY(yaw), world_frame_id_', zalt)
  /\ \E returns \in BOOLEAN : pc' = IF returns THEN "configured" ELSE "aborted"
  /\ UNCHANGED <<cb_vars, utm_world_trans_inverse_, gps_update_time_>>

\* lines 58-82: the parameter is read and parsed
RunDatumParsed ==
  \E lat \in DatumLats, lon \in DatumLons, yaw \in DatumYaws,
     zalt \in BOOLEAN, tf_prefix \in TfPrefixes :
    RunSetDatum("parsed", lat, lon, yaw, zalt, tf_prefix)

\* lines 83-90: XmlRpcException; the locals are zeroed
RunDatumException ==
  \E zalt \in BOOLEAN, tf_prefix \in TfPrefixes :
    RunSetDatum("exception", 0, 0, 0, zalt, tf_prefix)

\* lines 117-122: the subscription and the publishers; callbacks run from here on
RunSubscribe ==
  /\ pc = "configured"
  /\ pc' = "spin"
  /\ UNCHANGED <<run_path, datum_lat, datum_lon, datum_yaw, yaw_warned, zero_altitude_,
                 world_frame_id_, base_link_frame_id_, datum_vars, cb_vars,
                 utm_world_trans_inverse_, gps_update_time_>>

(***************************************************************************)
(* GeonavTransform::navOdomCallback(msg), lines 173-280.                   *)
(***************************************************************************)
\* lines 187-189
GoodGps(msg) ==
  ~IsNaN(msg.position[1]) /\ ~IsNaN(msg.position[2]) /\ ~IsNaN(msg.position[3])

\* the datum members setDatum writes
DatumMembers == <<utm_zone_, has_datum_, transform_utm2odom_, transform_utm2odom_inverse_>>

\* TransformUtm2Nav with latitude and longitude exchanged in the call of LLtoUTM
TransformUtm2NavSwapped(msg) ==
  LET utm == LLtoUTM(msg.position[1], msg.position[2])
  IN Xf(MatFromQuat(msg.orientation), Vec(utm.easting, utm.northing, msg.position[3]))

\* lines 196-214: LLtoUTM(y, x, ...) and the transform utm -> nav
TransformUtm2Nav(msg) ==
  LET utm == LLtoUTM(msg.position[2], msg.position[1])
  IN Xf(MatFromQuat(msg.orientation), Vec(utm.easting, utm.northing, msg.position[3]))

\* lines 217-241: the covariance, rotated by the rotation of utm_world_trans_inverse_
RotatedCovariance(cov, rot_source) ==
  LET rot == MatFromQuat(GetRotation(rot_source.basis))
  IN RotateCovariance(Rot6d(rot), PopulateCovariance(cov))

\* lines 253-260 applied to the rotated covariance
PoseCovariance(cov, rot_source) ==
  CopyCovariance(ZeroCov, RotatedCovariance(cov, rot_source), 0)

\* The two computations above depend on the message's covariance and on
\* utm_world_trans_inverse_ only; they are evaluated once per pair here.
RotatedCovarianceOf ==
  [cov \in Covariances |-> [t \in UninitTransforms |-> RotatedCovariance(cov, t)]]
PoseCovarianceOf ==
  [cov \in Covariances |-> [t \in UninitTransforms |-> PoseCovariance(cov, t)]]

\* zero_altitude_ ? 0.0 : z
ZeroAltitude(zalt, pos) == Vec(pos[1], pos[2], IF zalt THEN Fin(0) ELSE pos[3])

\* lines 243-264: nav_in_utm
NavInUtm(msg, stamp, t_utm2nav, pose_cov, zalt) ==
  Odometry(stamp, "utm", "",
           ZeroAltitude(zalt, t_utm2nav.origin),
           msg.orientation,
           pose_cov,
           msg.twist)

\* lines 269-279: nav_in_odom, a copy of nav_in_utm whose header and pose are rewritten;
\* tf2::toMsg(transform, pose) writes the position and the orientation
NavInOdom(nav_in_utm, stamp, frame, t_odom2nav, zalt) ==
  [nav_in_utm EXCEPT
     !.frame_id = frame,
     !.stamp = stamp,
     !.position = ZeroAltitude(zalt, t_odom2nav.origin),
     !.orientation = GetRotation(t_odom2nav.basis)]

navOdomCallback(msg) ==
  /\ nav_frame_id_' = msg.frame_id
  /\ cb_count' = cb_count + 1
  /\ cb_msg' = msg
  /\ cb_datum_calls' = datum_calls
  /\ cb_datum_seen' = DatumMembers
  /\ IF ~GoodGps(msg)
     THEN /\ cb_result' = "dropped"
          /\ UNCHANGED <<transform_utm2nav_, transform_utm2nav_inverse_,
                         transform_utm2nav_covariance_, utm_pub_, odom_pub_, cb_rot>>
     ELSE /\ cb_result' = "published"
          /\ cb_rot' = GetRotation(utm_world_trans_inverse_.basis)
          /\ transform_utm2nav_' = TransformUtm2Nav(msg)
          /\ transform_utm2nav_inverse_' = Inverse(transform_utm2nav_')
          /\ transform_utm2nav_covariance_' =
               RotatedCovarianceOf[msg.covariance][utm_world_trans_inverse_]
          /\ utm_pub_' =
               [count |-> utm_pub_.count + 1,
                last |-> NavInUtm(msg, gps_update_time_, transform_utm2nav_',
                                  PoseCovarianceOf[msg.covariance][utm_world_trans_inverse_],
                                  zero_altitude_)]
          /\ odom_pub_' =
               [count |-> odom_pub_.count + 1,
                last |-> NavInOdom(utm_pub_'.last, gps_update_time_, world_frame_id_,
                                   Mult(transform_utm2odom_inverse_, transform_utm2nav_'),
                                   zero_altitude_)]
  /\ UNCHANGED <<run_vars, datum_vars, utm_world_trans_inverse_, gps_update_time_>>

\* the measurements: message k carries the stamp k, so stamps are distinct and non-zero
Measurements ==
  {Odometry(cb_count + 1, "gps", "base_link", pos, q, cov, Twist) :
     pos \in FinitePositions, q \in Orientations, cov \in Covariances}
  \cup
  {Odometry(cb_count + 1, "gps", "base_link", pos, QId, CovSym, Twist) :
     pos \in NonFinitePositions}

\* ros::spinOnce() delivers a queued measurement (line 128)
Callback ==
  /\ pc = "spin"
  /\ cb_count < MaxMsgs
  /\ \E msg \in Measurements : navOdomCallback(msg)

Next ==
  \/ RunDatumAbsent
  \/ RunDatumParsed
  \/ RunDatumException
  \/ RunSubscribe
  \/ Callback

Spec == Init /\ [][Next]_vars

(***************************************************************************)
(* Properties.                                                             *)
(***************************************************************************)
Published == cb_result = "published"
DatumWasSet == cb_datum_calls >= 1
AllFinite(pos) == IsFin(pos[1]) /\ IsFin(pos[2]) /\ IsFin(pos[3])

\* C1: for every measurement that navOdomCallback does not drop, the UTM-frame
\* sample and the world-frame sample it publishes carry the header stamp of that
\* measurement.
C1_StampsAreInputStamps ==
  Published =>
    /\ utm_pub_.last.stamp = cb_msg.stamp
    /\ odom_pub_.last.stamp = cb_msg.stamp

\* C2: a measurement processed while no setDatum has completed is not converted:
\* the callback ends with a datum-not-set failure (or has already dropped the
\* measurement as unusable) and nothing is published on either output.
C2_UnsetDatumPublishesNothing ==
  (cb_count > 0 /\ ~DatumWasSet) =>
    /\ cb_result \in {"datum_not_set", "dropped"}
    /\ utm_pub_.count = 0
    /\ odom_pub_.count = 0

\* C3: a measurement whose position has a non-finite component (NaN, +infinity
\* or -infinity in x, y or z) is dropped: navOdomCallback publishes nothing for it
\* and returns.
C3_NonFiniteIsDropped ==
  (cb_count > 0 /\ ~AllFinite(cb_msg.position)) => cb_result = "dropped"

\* C4: on every configuration path of run() a setDatum call has completed before
\* the subscription exists, so that no callback runs before it; on the paths where
\* the datum parameter is absent or fails to parse, the datum set is the zero datum.
C4_DatumSetBeforeSubscription ==
  /\ pc = "spin" => datum_calls >= 1
  /\ cb_count > 0 => DatumWasSet
  /\ (pc = "spin" /\ run_path \in {"absent", "exception"}) =>
       transform_utm2odom_ = DatumTransform(0, 0, 0, SetRPY(0))

\* C5: once setDatum has completed, the rotation navOdomCallback builds R6 from is
\* the rotation of the inverse of the world->UTM transform that setDatum stored.
C5_CovarianceRotationIsDatumInverse ==
  (Published /\ DatumWasSet) =>
    cb_rot = GetRotation(transform_utm2odom_inverse_.basis)

\* C6: the pose covariance of the published UTM-frame sample is the row-major
\* flattening of the rotated 6x6 covariance: out[6*i + j] = cov'(i, j) for all
\* i, j in 0..5.
C6_CovarianceIsRowMajor ==
  Published =>
    \A i \in Idx6 : \A j \in Idx6 :
      utm_pub_.last.covariance[POSE_SIZE * i + j] = transform_utm2nav_covariance_[i][j]

\* C7: the world-frame sample differs from the UTM-frame sample of the same
\* measurement in frame id and position only: its orientation is the rotation the
\* measurement carried, its pose covariance is the UTM-frame sample's, and its
\* twist is the measurement's.  (The orientation is compared as a rotation, so a
\* quaternion of the other sign counts as equal.)
C7_WorldSampleKeepsOrientation ==
  (Published /\ DatumWasSet) =>
    /\ MatFromQuat(odom_pub_.last.orientation) = MatFromQuat(cb_msg.orientation)
    /\ odom_pub_.last.covariance = utm_pub_.last.covariance
    /\ odom_pub_.last.twist = cb_msg.twist
    /\ odom_pub_.last.stamp = utm_pub_.last.stamp
    /\ odom_pub_.last.child_frame_id = utm_pub_.last.child_frame_id

\* C8: the datum yaw is ignored.  The model is deterministic in its inputs, so two
\* runs that differ in the yaw only agree exactly when each agrees with the run
\* whose yaw is 0: the transform setDatum stored, the transform it broadcast and
\* the published world-frame sample are those of yaw 0.
C8_YawIsIgnored ==
  LET datum0 == DatumTransform(datum_lat, datum_lon, 0, SetRPY(0))
  IN /\ datum_calls >= 1 =>
          /\ transform_utm2odom_ = datum0
          /\ transform_utm2odom_inverse_ = Inverse(datum0)
          /\ utm_broadcast = <<UtmTransformStamped(datum0, world_frame_id_, zero_altitude_)>>
     /\ (Published /\ DatumWasSet) =>
          odom_pub_.last =
            NavInOdom(utm_pub_.last, gps_update_time_, world_frame_id_,
                      Mult(Inverse(datum0), transform_utm2nav_), zero_altitude_)

\* C9: after setDatum(lat0, lon0, 0, q0), a measurement at latitude lat0 and
\* longitude lon0 with the (finite) altitude a is published with the world-frame
\* position (0, 0, a) and the UTM-frame position (UTM of (lat0, lon0), a); with
\* zero_altitude both z are 0.  q0 is the quaternion run() builds from the yaw.
AtDatum ==
  /\ Published /\ DatumWasSet
  /\ cb_msg.position[1] = Fin(datum_lon)
  /\ cb_msg.position[2] = Fin(datum_lat)
  /\ IsFin(cb_msg.position[3])

C9_DatumDeterminism ==
  AtDatum =>
    LET a == IF zero_altitude_ THEN Fin(0) ELSE cb_msg.position[3]
        utm == LLtoUTM(Fin(datum_lat), Fin(datum_lon))
    IN /\ odom_pub_.last.position = Vec(Fin(0), Fin(0), a)
       /\ utm_pub_.last.position = Vec(utm.easting, utm.northing, a)

\* a measurement at a datum away from the origin, turned by half a turn, with a
\* non-zero altitude that is kept
C9_Witness ==
  /\ AtDatum
  /\ datum_lat = 1 /\ datum_lon = 1 /\ datum_yaw = 1
  /\ cb_msg.position[3] = Fin(MaxAlt)
  /\ ~zero_altitude_
  /\ cb_msg.orientation = QDiag

\* C10: the datum registry is Unset (has_datum_ false) from construction until the
\* first setDatum completes and Set from then on; while Set, the stored
\* utm->world transform is the inverse of the stored world->utm transform; and
\* navOdomCallback leaves the datum transforms, the datum zone and has_datum_ as
\* it found them.
C10_DatumRegistry ==
  /\ has_datum_ <=> datum_calls >= 1
  /\ has_datum_ => transform_utm2odom_inverse_ = Inverse(transform_utm2odom_)
  /\ cb_count > 0 => cb_datum_seen = DatumMembers

=============================================================================
